---------------------------- MODULE Spec2Model ----------------------------
(***************************************************************************)
(* Bulls and Cows (Entropy Edition): a model of src/BullsAndCowsgame.py.   *)
(*                                                                         *)
(* The class BullsAndCowsGame holds the candidate pool and the secret; its *)
(* methods score a guess (get_feedback), measure the pool                  *)
(* (calculate_uncertainty), rank a guess (calculate_guess_entropy), pick a *)
(* hint (suggest_best_guess) and narrow the pool (filter_candidates).      *)
(* play() is the interactive loop around them.                             *)
(*                                                                         *)
(* A Code is a tuple of integers, a list is a sequence, None is the empty  *)
(* tuple (no method ever yields an empty tuple as a Code).  A console line *)
(* is a sequence of one-character strings.                                 *)
(***************************************************************************)
EXTENDS Integers, Sequences, FiniteSets, TLC

VARIABLES
    candidates,     \* self.candidates
    secret,         \* self.secret
    attempts,       \* play's local attempts
    best_move,      \* play's local best_move: the last hint shown (None before)
    pc,             \* where play() stands: "new", "turn", "guess", "won", "error"
    call            \* the last method call: its name, arguments, the pool it
                    \* found and what it returned (what a test harness records)

vars == <<candidates, secret, attempts, best_move, pc, call>>

None == <<>>

-----------------------------------------------------------------------------
(* Program constants *)

\* range(10): the alphabet has 10 symbols
NumSymbols == 10
\* permutations(..., 4) and parse_input's length test: a Code has 4 positions
CodeLen == 4
\* the pool size that triggers suggest_best_guess's opening move
FastPathSize == 5040

(* Bounds of the exploration *)

\* how many secrets random.choice is allowed to draw in a play session
NumSecrets == 4
\* how many distinct well-formed lines the player may type (besides the hint)
NumGuesses == 3
\* play's attempts counter is unbounded: turns explored per session
MaxAttempts == 4
\* the player asks for a hint on the full pool, or on a pool of at most this size
MaxHintPool == 9
\* how many of the 24 rearrangements of the opening move are secrets of the
\* hint-following sessions
NumFollowSecrets == 20
\* how many guesses the direct calls of filter_candidates use
NumApiGuesses == 2
\* the secrets drawn by direct generate_secret calls
NumApiSecrets == 1
\* the sample guesses and secrets are every SampleStride-th Code
SampleStride == 1234

-----------------------------------------------------------------------------
(* Helpers on sequences *)

Range(s) == {s[i] : i \in DOMAIN s}

Min(a, b) == IF a < b THEN a ELSE b

\* Body applied to the value of v, v being evaluated once: the sequencing of a
\* statement that computes a value and the statements that use it
Then(v, Body(_)) == CHOOSE r \in {Body(x) : x \in {v}} : TRUE

RemoveAt(s, i) == [j \in 1..(Len(s) - 1) |-> IF j < i THEN s[j] ELSE s[j + 1]]

\* range(n): 0, 1, ..., n-1
range(n) == [i \in 1..n |-> i - 1]

\* n * (n-1) * ... * (n-r+1): the number of r-length permutations of n items
RECURSIVE FallingFactorial(_, _)
FallingFactorial(n, r) ==
    IF r = 0 THEN 1 ELSE n * FallingFactorial(n - 1, r - 1)

\* the k-th (from 0) r-length permutation of pool in lexicographic order of
\* the positions: its first item is fixed for each block of
\* FallingFactorial(n-1, r-1) consecutive permutations
RECURSIVE NthPermutation(_, _, _)
NthPermutation(pool, r, k) ==
    IF r = 0 THEN <<>>
    ELSE LET block == FallingFactorial(Len(pool) - 1, r - 1)
             i == (k \div block) + 1
         IN  <<pool[i]>> \o NthPermutation(RemoveAt(pool, i), r - 1, k % block)

\* list(itertools.permutations(pool, r)): the r-length tuples of distinct
\* positions of pool, in lexicographic order of the positions
permutations(pool, r) ==
    [k \in 1..FallingFactorial(Len(pool), r) |-> NthPermutation(pool, r, k - 1)]

\* self.all_combinations
all_combinations == permutations(range(NumSymbols), CodeLen)

\* the Codes of self.all_combinations, as a set
Universe == Range(all_combinations)

-----------------------------------------------------------------------------
(* get_feedback *)

\* get_feedback with the subtraction of bulls forgotten: cows counts every
\* common digit
get_feedback_cows_not_reduced(s, g) ==
    LET bulls == Cardinality({i \in 1..Min(Len(s), Len(g)) : s[i] = g[i]})
        common_digits == Cardinality(Range(s) \cap Range(g))
    IN  <<bulls, common_digits>>

\* bulls: positions where the two agree (zip stops at the shorter argument);
\* cows: distinct common values minus bulls
get_feedback(s, g) ==
    LET bulls == Cardinality({i \in 1..Min(Len(s), Len(g)) : s[i] = g[i]})
        common_digits == Cardinality(Range(s) \cap Range(g))
        cows == common_digits - bulls
    IN  <<bulls, cows>>

-----------------------------------------------------------------------------
(* calculate_uncertainty *)

\* math.log2(n) for an integer n >= 1.  The real number log2(n) is written as
\* the record [log2of |-> n]: log2 is strictly increasing and its
\* floating-point rounding is non-decreasing, so two results compare as their
\* arguments do.  The literal 0.0 is log2(1).
log2(n) == [log2of |-> n]

ZeroBits == log2(1)

BitsLeq(a, b) == a.log2of <= b.log2of

calculate_uncertainty(pool) ==
    LET pool_size == Len(pool)
    IN  IF pool_size = 0 THEN ZeroBits ELSE log2(pool_size)

-----------------------------------------------------------------------------
(* calculate_guess_entropy: IEEE-754 binary64 arithmetic *)

\* A non-negative binary64 value x below 4.0 is the pair <<hi, lo>> with
\* x = (hi * 2^29 + lo) * 2^-57; every value the entropy loop meets for a
\* pool of at most 12 candidates is such a multiple of 2^-57.
LimbBase == 536870912

\* PLog2PTable[total][count] is -(p * math.log2(p)) for p = count / total, as
\* CPython computes it in binary64 (division, log2 and product each rounded).
PLog2PTable == <<
    << <<0, 0>> >>,
    << <<134217728, 0>>, <<0, 0>> >>,
    << <<141820043, 469580208>>, <<104683117, 44375568>>, <<0, 0>> >>,
    << <<134217728, 0>>, <<134217728, 0>>, <<83558085, 151404080>>, <<0, 0>> >>,
    << <<124657565, 209411904>>, <<141940948, 204075440>>, <<118696617, 105113904>>, <<69133531, 515525080>>, <<0, 0>> >>,
    << <<115649264, 324268584>>, <<141820043, 469580208>>, <<134217728, 0>>, <<104683117, 44375568>>, <<58839800, 301400896>>, <<0, 0>> >>,
    << <<107656228, 203733104>>, <<138616612, 100682832>>, <<140628628, 390932576>>, <<123841535, 124669840>>, <<93075551, 117374184>>, <<51169723, 398385928>>, <<0, 0>> >>,
    << <<100663296, 0>>, <<134217728, 0>>, <<142442338, 344137504>>, <<134217728, 0>>, <<113761588, 83785296>>, <<83558085, 151404080>>, <<45248673, 94311984>>, <<0, 0>> >>,
    << <<94546695, 492010440>>, <<129441068, 148888360>>, <<141820043, 469580208>>, <<139577489, 238124384>>, <<126462464, 327392056>>, <<104683117, 44375568>>, <<75698516, 485637472>>, <<40545684, 356944136>>, <<0, 0>> >>,
    << <<89172328, 158393048>>, <<124657565, 209411904>>, <<139878945, 213618224>>, <<141940948, 204075440>>, <<134217728, 0>>, <<118696617, 105113904>>, <<96690779, 3084904>>, <<69133531, 515525080>>, <<36722717, 393042836>>, <<0, 0>> >>,
    << <<84421282, 100039600>>, <<120036117, 444111432>>, <<137229265, 111142592>>, <<142459342, 302545504>>, <<138793762, 170681168>>, <<128039190, 417510976>>, <<111389412, 280803248>>, <<89692898, 507478096>>, <<63584051, 303370076>>, <<33555291, 487781692>>, <<0, 0>> >>,
    << <<80194253, 341091264>>, <<115649264, 324268584>>, <<134217728, 0>>, <<141820043, 469580208>>, <<141268006, 508614384>>, <<134217728, 0>>, <<121763509, 303029864>>, <<104683117, 44375568>>, <<83558085, 151404080>>, <<58839800, 301400896>>, <<30888861, 148395240>>, <<0, 0>> >>
>>

\* the spacing of binary64 values around hi * 2^29 * 2^-57, in units of 2^-57:
\* 53 significant bits leave 1 below 2^-5, 2 below 2^-4, ..., 64 in [2, 4)
RECURSIVE Ulp(_)
Ulp(hi) == IF hi < 16777216 THEN 1 ELSE 2 * Ulp(hi \div 2)

\* a + b rounded to the nearest binary64 value, ties to the even one
FloatAdd(a, b) ==
    LET lo == a[2] + b[2]
        hi == a[1] + b[1] + (lo \div LimbBase)
        l  == lo % LimbBase
        q  == Ulp(hi)
        r  == l % q
        up == (2 * r > q) \/ (2 * r = q /\ (l \div q) % 2 = 1)
        l2 == IF up THEN l - r + q ELSE l - r
    IN  <<hi + (l2 \div LimbBase), l2 % LimbBase>>

\* the comparison h > m of two binary64 values; -1.0 is <<-1, 0>>
FloatGT(h, m) == h[1] > m[1] \/ (h[1] = m[1] /\ h[2] > m[2])

FloatZero == <<0, 0>>

FloatMinusOne == <<-1, 0>>

\* Counter(outcomes).values(): the number of occurrences of each distinct
\* outcome, in the order the outcomes first occur
CounterValues(outcomes) ==
    LET firsts == {i \in 1..Len(outcomes) :
                      \A j \in 1..(i - 1) : outcomes[j] # outcomes[i]}
        KthFirst(k) ==
            CHOOSE i \in firsts : Cardinality({j \in firsts : j < i}) = k - 1
    IN  [k \in 1..Cardinality(firsts) |->
            Cardinality({i \in 1..Len(outcomes) :
                            outcomes[i] = outcomes[KthFirst(k)]})]

\* for count in counts.values(): p = count / total; entropy -= p * log2(p)
\* (the new value of entropy is computed once, then the loop goes on with it)
RECURSIVE EntropyLoop(_, _, _, _)
EntropyLoop(values, total, k, entropy) ==
    IF k > Len(values) THEN entropy
    ELSE Then(FloatAdd(entropy, PLog2PTable[total][values[k]]),
              LAMBDA e : EntropyLoop(values, total, k + 1, e))

calculate_guess_entropy(guess, cands) ==
    LET outcomes == [i \in 1..Len(cands) |-> get_feedback(cands[i], guess)]
        total == Len(cands)
    IN  Then(CounterValues(outcomes),
             LAMBDA counts : EntropyLoop(counts, total, 1, FloatZero))

-----------------------------------------------------------------------------
(* suggest_best_guess *)

\* the search loop over search_space = pool, from its i-th element on.  The
\* result carries, beside the guess, the number of calls of
\* calculate_guess_entropy the search made (what call-count instrumentation of
\* that method reports).
RECURSIVE SuggestLoop(_, _, _, _)
SuggestLoop(pool, i, best_guess, max_entropy) ==
    IF i > Len(pool) THEN [guess |-> best_guess, evals |-> i - 1]
    ELSE Then(calculate_guess_entropy(pool[i], pool),
              LAMBDA h : IF FloatGT(h, max_entropy)
                         THEN SuggestLoop(pool, i + 1, pool[i], h)
                         ELSE SuggestLoop(pool, i + 1, best_guess, max_entropy))

\* suggest_best_guess with another opening move
suggest_opening_1234(pool) ==
    IF Len(pool) = FastPathSize THEN [guess |-> <<1, 2, 3, 4>>, evals |-> 0]
    ELSE SuggestLoop(pool, 1, None, FloatMinusOne)

\* suggest_best_guess with the running maximum starting at 0.0
suggest_max_from_zero(pool) ==
    IF Len(pool) = FastPathSize THEN [guess |-> <<0, 1, 2, 3>>, evals |-> 0]
    ELSE SuggestLoop(pool, 1, None, FloatZero)

suggest_best_guess(pool) ==
    IF Len(pool) = FastPathSize THEN [guess |-> <<0, 1, 2, 3>>, evals |-> 0]
    ELSE SuggestLoop(pool, 1, None, FloatMinusOne)

-----------------------------------------------------------------------------
(* filter_candidates *)

\* filter_candidates comparing the bulls only
filter_bulls_only(pool, guess, actual_feedback) ==
    LET Keeps(c) == get_feedback(c, guess)[1] = actual_feedback[1]
    IN  SelectSeq(pool, Keeps)

\* filter_candidates iterating over self.all_combinations
filter_from_all_combinations(pool, guess, actual_feedback) ==
    LET Keeps(c) == get_feedback(c, guess) = actual_feedback
    IN  SelectSeq(all_combinations, Keeps)

\* filter_candidates comparing with (cows, bulls)
filter_swapped_feedback(pool, guess, actual_feedback) ==
    LET Keeps(c) ==
            get_feedback(c, guess) = <<actual_feedback[2], actual_feedback[1]>>
    IN  SelectSeq(pool, Keeps)

\* filter_candidates iterating over self.candidates[1:]
filter_skipping_first(pool, guess, actual_feedback) ==
    LET Keeps(c) == get_feedback(c, guess) = actual_feedback
    IN  IF pool = <<>> THEN <<>> ELSE SelectSeq(Tail(pool), Keeps)

\* filter_candidates keeping the candidates that do not match
filter_keeping_mismatches(pool, guess, actual_feedback) ==
    LET Keeps(c) == get_feedback(c, guess) # actual_feedback
    IN  SelectSeq(pool, Keeps)

\* [c for c in pool if get_feedback(c, guess) == actual_feedback]
filter_candidates(pool, guess, actual_feedback) ==
    LET Keeps(c) == get_feedback(c, guess) = actual_feedback
    IN  SelectSeq(pool, Keeps)

-----------------------------------------------------------------------------
(* parse_input *)

\* A line is a sequence of characters; a character outside ASCII is written
\* by its code point.

DigitChars == <<"0", "1", "2", "3", "4", "5", "6", "7", "8", "9">>

\* the decimal digits of every script, by the value int() gives them
\* (entry n + 1 holds the characters of value n): str.isdigit() is True for
\* them and int() converts them
DecimalDigitChars ==
    <<
      {
        "0", "U+0660", "U+06F0", "U+07C0", "U+0966", "U+09E6",
        "U+0A66", "U+0AE6", "U+0B66", "U+0BE6", "U+0C66", "U+0CE6",
        "U+0D66", "U+0DE6", "U+0E50", "U+0ED0", "U+0F20", "U+1040",
        "U+1090", "U+17E0", "U+1810", "U+1946", "U+19D0", "U+1A80",
        "U+1A90", "U+1B50", "U+1BB0", "U+1C40", "U+1C50", "U+A620",
        "U+A8D0", "U+A900", "U+A9D0", "U+A9F0", "U+AA50", "U+ABF0",
        "U+FF10", "U+104A0", "U+10D30", "U+11066", "U+110F0",
        "U+11136", "U+111D0", "U+112F0", "U+11450", "U+114D0",
        "U+11650", "U+116C0", "U+11730", "U+118E0", "U+11950",
        "U+11C50", "U+11D50", "U+11DA0", "U+16A60", "U+16AC0",
        "U+16B50", "U+1D7CE", "U+1D7D8", "U+1D7E2", "U+1D7EC",
        "U+1D7F6", "U+1E140", "U+1E2F0", "U+1E950", "U+1FBF0" },
      {
        "1", "U+0661", "U+06F1", "U+07C1", "U+0967", "U+09E7",
        "U+0A67", "U+0AE7", "U+0B67", "U+0BE7", "U+0C67", "U+0CE7",
        "U+0D67", "U+0DE7", "U+0E51", "U+0ED1", "U+0F21", "U+1041",
        "U+1091", "U+17E1", "U+1811", "U+1947", "U+19D1", "U+1A81",
        "U+1A91", "U+1B51", "U+1BB1", "U+1C41", "U+1C51", "U+A621",
        "U+A8D1", "U+A901", "U+A9D1", "U+A9F1", "U+AA51", "U+ABF1",
        "U+FF11", "U+104A1", "U+10D31", "U+11067", "U+110F1",
        "U+11137", "U+111D1", "U+112F1", "U+11451", "U+114D1",
        "U+11651", "U+116C1", "U+11731", "U+118E1", "U+11951",
        "U+11C51", "U+11D51", "U+11DA1", "U+16A61", "U+16AC1",
        "U+16B51", "U+1D7CF", "U+1D7D9", "U+1D7E3", "U+1D7ED",
        "U+1D7F7", "U+1E141", "U+1E2F1", "U+1E951", "U+1FBF1" },
      {
        "2", "U+0662", "U+06F2", "U+07C2", "U+0968", "U+09E8",
        "U+0A68", "U+0AE8", "U+0B68", "U+0BE8", "U+0C68", "U+0CE8",
        "U+0D68", "U+0DE8", "U+0E52", "U+0ED2", "U+0F22", "U+1042",
        "U+1092", "U+17E2", "U+1812", "U+1948", "U+19D2", "U+1A82",
        "U+1A92", "U+1B52", "U+1BB2", "U+1C42", "U+1C52", "U+A622",
        "U+A8D2", "U+A902", "U+A9D2", "U+A9F2", "U+AA52", "U+ABF2",
        "U+FF12", "U+104A2", "U+10D32", "U+11068", "U+110F2",
        "U+11138", "U+111D2", "U+112F2", "U+11452", "U+114D2",
        "U+11652", "U+116C2", "U+11732", "U+118E2", "U+11952",
        "U+11C52", "U+11D52", "U+11DA2", "U+16A62", "U+16AC2",
        "U+16B52", "U+1D7D0", "U+1D7DA", "U+1D7E4", "U+1D7EE",
        "U+1D7F8", "U+1E142", "U+1E2F2", "U+1E952", "U+1FBF2" },
      {
        "3", "U+0663", "U+06F3", "U+07C3", "U+0969", "U+09E9",
        "U+0A69", "U+0AE9", "U+0B69", "U+0BE9", "U+0C69", "U+0CE9",
        "U+0D69", "U+0DE9", "U+0E53", "U+0ED3", "U+0F23", "U+1043",
        "U+1093", "U+17E3", "U+1813", "U+1949", "U+19D3", "U+1A83",
        "U+1A93", "U+1B53", "U+1BB3", "U+1C43", "U+1C53", "U+A623",
        "U+A8D3", "U+A903", "U+A9D3", "U+A9F3", "U+AA53", "U+ABF3",
        "U+FF13", "U+104A3", "U+10D33", "U+11069", "U+110F3",
        "U+11139", "U+111D3", "U+112F3", "U+11453", "U+114D3",
        "U+11653", "U+116C3", "U+11733", "U+118E3", "U+11953",
        "U+11C53", "U+11D53", "U+11DA3", "U+16A63", "U+16AC3",
        "U+16B53", "U+1D7D1", "U+1D7DB", "U+1D7E5", "U+1D7EF",
        "U+1D7F9", "U+1E143", "U+1E2F3", "U+1E953", "U+1FBF3" },
      {
        "4", "U+0664", "U+06F4", "U+07C4", "U+096A", "U+09EA",
        "U+0A6A", "U+0AEA", "U+0B6A", "U+0BEA", "U+0C6A", "U+0CEA",
        "U+0D6A", "U+0DEA", "U+0E54", "U+0ED4", "U+0F24", "U+1044",
        "U+1094", "U+17E4", "U+1814", "U+194A", "U+19D4", "U+1A84",
        "U+1A94", "U+1B54", "U+1BB4", "U+1C44", "U+1C54", "U+A624",
        "U+A8D4", "U+A904", "U+A9D4", "U+A9F4", "U+AA54", "U+ABF4",
        "U+FF14", "U+104A4", "U+10D34", "U+1106A", "U+110F4",
        "U+1113A", "U+111D4", "U+112F4", "U+11454", "U+114D4",
        "U+11654", "U+116C4", "U+11734", "U+118E4", "U+11954",
        "U+11C54", "U+11D54", "U+11DA4", "U+16A64", "U+16AC4",
        "U+16B54", "U+1D7D2", "U+1D7DC", "U+1D7E6", "U+1D7F0",
        "U+1D7FA", "U+1E144", "U+1E2F4", "U+1E954", "U+1FBF4" },
      {
        "5", "U+0665", "U+06F5", "U+07C5", "U+096B", "U+09EB",
        "U+0A6B", "U+0AEB", "U+0B6B", "U+0BEB", "U+0C6B", "U+0CEB",
        "U+0D6B", "U+0DEB", "U+0E55", "U+0ED5", "U+0F25", "U+1045",
        "U+1095", "U+17E5", "U+1815", "U+194B", "U+19D5", "U+1A85",
        "U+1A95", "U+1B55", "U+1BB5", "U+1C45", "U+1C55", "U+A625",
        "U+A8D5", "U+A905", "U+A9D5", "U+A9F5", "U+AA55", "U+ABF5",
        "U+FF15", "U+104A5", "U+10D35", "U+1106B", "U+110F5",
        "U+1113B", "U+111D5", "U+112F5", "U+11455", "U+114D5",
        "U+11655", "U+116C5", "U+11735", "U+118E5", "U+11955",
        "U+11C55", "U+11D55", "U+11DA5", "U+16A65", "U+16AC5",
        "U+16B55", "U+1D7D3", "U+1D7DD", "U+1D7E7", "U+1D7F1",
        "U+1D7FB", "U+1E145", "U+1E2F5", "U+1E955", "U+1FBF5" },
      {
        "6", "U+0666", "U+06F6", "U+07C6", "U+096C", "U+09EC",
        "U+0A6C", "U+0AEC", "U+0B6C", "U+0BEC", "U+0C6C", "U+0CEC",
        "U+0D6C", "U+0DEC", "U+0E56", "U+0ED6", "U+0F26", "U+1046",
        "U+1096", "U+17E6", "U+1816", "U+194C", "U+19D6", "U+1A86",
        "U+1A96", "U+1B56", "U+1BB6", "U+1C46", "U+1C56", "U+A626",
        "U+A8D6", "U+A906", "U+A9D6", "U+A9F6", "U+AA56", "U+ABF6",
        "U+FF16", "U+104A6", "U+10D36", "U+1106C", "U+110F6",
        "U+1113C", "U+111D6", "U+112F6", "U+11456", "U+114D6",
        "U+11656", "U+116C6", "U+11736", "U+118E6", "U+11956",
        "U+11C56", "U+11D56", "U+11DA6", "U+16A66", "U+16AC6",
        "U+16B56", "U+1D7D4", "U+1D7DE", "U+1D7E8", "U+1D7F2",
        "U+1D7FC", "U+1E146", "U+1E2F6", "U+1E956", "U+1FBF6" },
      {
        "7", "U+0667", "U+06F7", "U+07C7", "U+096D", "U+09ED",
        "U+0A6D", "U+0AED", "U+0B6D", "U+0BED", "U+0C6D", "U+0CED",
        "U+0D6D", "U+0DED", "U+0E57", "U+0ED7", "U+0F27", "U+1047",
        "U+1097", "U+17E7", "U+1817", "U+194D", "U+19D7", "U+1A87",
        "U+1A97", "U+1B57", "U+1BB7", "U+1C47", "U+1C57", "U+A627",
        "U+A8D7", "U+A907", "U+A9D7", "U+A9F7", "U+AA57", "U+ABF7",
        "U+FF17", "U+104A7", "U+10D37", "U+1106D", "U+110F7",
        "U+1113D", "U+111D7", "U+112F7", "U+11457", "U+114D7",
        "U+11657", "U+116C7", "U+11737", "U+118E7", "U+11957",
        "U+11C57", "U+11D57", "U+11DA7", "U+16A67", "U+16AC7",
        "U+16B57", "U+1D7D5", "U+1D7DF", "U+1D7E9", "U+1D7F3",
        "U+1D7FD", "U+1E147", "U+1E2F7", "U+1E957", "U+1FBF7" },
      {
        "8", "U+0668", "U+06F8", "U+07C8", "U+096E", "U+09EE",
        "U+0A6E", "U+0AEE", "U+0B6E", "U+0BEE", "U+0C6E", "U+0CEE",
        "U+0D6E", "U+0DEE", "U+0E58", "U+0ED8", "U+0F28", "U+1048",
        "U+1098", "U+17E8", "U+1818", "U+194E", "U+19D8", "U+1A88",
        "U+1A98", "U+1B58", "U+1BB8", "U+1C48", "U+1C58", "U+A628",
        "U+A8D8", "U+A908", "U+A9D8", "U+A9F8", "U+AA58", "U+ABF8",
        "U+FF18", "U+104A8", "U+10D38", "U+1106E", "U+110F8",
        "U+1113E", "U+111D8", "U+112F8", "U+11458", "U+114D8",
        "U+11658", "U+116C8", "U+11738", "U+118E8", "U+11958",
        "U+11C58", "U+11D58", "U+11DA8", "U+16A68", "U+16AC8",
        "U+16B58", "U+1D7D6", "U+1D7E0", "U+1D7EA", "U+1D7F4",
        "U+1D7FE", "U+1E148", "U+1E2F8", "U+1E958", "U+1FBF8" },
      {
        "9", "U+0669", "U+06F9", "U+07C9", "U+096F", "U+09EF",
        "U+0A6F", "U+0AEF", "U+0B6F", "U+0BEF", "U+0C6F", "U+0CEF",
        "U+0D6F", "U+0DEF", "U+0E59", "U+0ED9", "U+0F29", "U+1049",
        "U+1099", "U+17E9", "U+1819", "U+194F", "U+19D9", "U+1A89",
        "U+1A99", "U+1B59", "U+1BB9", "U+1C49", "U+1C59", "U+A629",
        "U+A8D9", "U+A909", "U+A9D9", "U+A9F9", "U+AA59", "U+ABF9",
        "U+FF19", "U+104A9", "U+10D39", "U+1106F", "U+110F9",
        "U+1113F", "U+111D9", "U+112F9", "U+11459", "U+114D9",
        "U+11659", "U+116C9", "U+11739", "U+118E9", "U+11959",
        "U+11C59", "U+11D59", "U+11DA9", "U+16A69", "U+16AC9",
        "U+16B59", "U+1D7D7", "U+1D7E1", "U+1D7EB", "U+1D7F5",
        "U+1D7FF", "U+1E149", "U+1E2F9", "U+1E959", "U+1FBF9" }
    >>

\* the digits that are not decimal (superscripts, subscripts, circled and
\* parenthesized digits and the like): str.isdigit() is True for them and
\* int() raises ValueError
OtherDigitChars ==
    {
      "U+00B2", "U+00B3", "U+00B9", "U+1369", "U+136A", "U+136B",
      "U+136C", "U+136D", "U+136E", "U+136F", "U+1370", "U+1371",
      "U+19DA", "U+2070", "U+2074", "U+2075", "U+2076", "U+2077",
      "U+2078", "U+2079", "U+2080", "U+2081", "U+2082", "U+2083",
      "U+2084", "U+2085", "U+2086", "U+2087", "U+2088", "U+2089",
      "U+2460", "U+2461", "U+2462", "U+2463", "U+2464", "U+2465",
      "U+2466", "U+2467", "U+2468", "U+2474", "U+2475", "U+2476",
      "U+2477", "U+2478", "U+2479", "U+247A", "U+247B", "U+247C",
      "U+2488", "U+2489", "U+248A", "U+248B", "U+248C", "U+248D",
      "U+248E", "U+248F", "U+2490", "U+24EA", "U+24F5", "U+24F6",
      "U+24F7", "U+24F8", "U+24F9", "U+24FA", "U+24FB", "U+24FC",
      "U+24FD", "U+24FF", "U+2776", "U+2777", "U+2778", "U+2779",
      "U+277A", "U+277B", "U+277C", "U+277D", "U+277E", "U+2780",
      "U+2781", "U+2782", "U+2783", "U+2784", "U+2785", "U+2786",
      "U+2787", "U+2788", "U+278A", "U+278B", "U+278C", "U+278D",
      "U+278E", "U+278F", "U+2790", "U+2791", "U+2792", "U+10A40",
      "U+10A41", "U+10A42", "U+10A43", "U+10E60", "U+10E61",
      "U+10E62", "U+10E63", "U+10E64", "U+10E65", "U+10E66",
      "U+10E67", "U+10E68", "U+11052", "U+11053", "U+11054",
      "U+11055", "U+11056", "U+11057", "U+11058", "U+11059",
      "U+1105A", "U+1F100", "U+1F101", "U+1F102", "U+1F103",
      "U+1F104", "U+1F105", "U+1F106", "U+1F107", "U+1F108",
      "U+1F109", "U+1F10A" }

\* the characters int() converts
DecimalChars == UNION {DecimalDigitChars[n + 1] : n \in 0..9}

\* the characters str.isdigit() accepts
IsdigitChars == DecimalChars \cup OtherDigitChars

\* str.isdigit(): the line is not empty and every character is a digit
isdigit(line) ==
    /\ Len(line) > 0
    /\ \A i \in 1..Len(line) : line[i] \in IsdigitChars

\* int(d) for a decimal digit character
int(d) == CHOOSE n \in 0..9 : d \in DecimalDigitChars[n + 1]

\* the outcome of an operation that raises ValueError
ValueError == <<"ValueError">>

\* str(n) for a single digit
str(n) == DigitChars[n + 1]

\* ''.join(map(str, code))
join(code) == [i \in 1..Len(code) |-> str(code[i])]

\* None for a line that is not 4 digits or repeats a digit; ValueError out of
\* int(d) for a digit int() does not convert
parse_input(user_input) ==
    IF Len(user_input) # CodeLen \/ ~isdigit(user_input) THEN None
    ELSE IF \E i \in 1..Len(user_input) : user_input[i] \notin DecimalChars
    THEN ValueError
    ELSE LET digits == [i \in 1..Len(user_input) |-> int(user_input[i])]
         IN  IF Cardinality(Range(digits)) # CodeLen THEN None ELSE digits

-----------------------------------------------------------------------------
(* What the environment supplies *)

\* every SampleStride-th Code of all_combinations, n of them, from offset on
SampleCodes(n, offset) ==
    {all_combinations[1 + ((offset + k * SampleStride) % Len(all_combinations))]
        : k \in 0..(n - 1)}

\* the secrets random.choice may return in a play session
Secrets == SampleCodes(NumSecrets, 7)

\* lines parse_input rejects: too short, a repeated digit, a letter, too long,
\* empty, the same digit in two scripts (twice)
BadLines == { <<"1", "2", "3">>, <<"1", "1", "2", "3">>, <<"1", "2", "a", "4">>,
              <<"0", "1", "2", "3", "4">>, <<>>,
              <<"1", "U+0661", "2", "3">>, <<"U+0967", "U+FF11", "2", "3">> }

\* lines of digits outside ASCII: the first two parse to (1, 2, 3, 4)
\* (ARABIC-INDIC; DEVANAGARI, FULLWIDTH and EXTENDED ARABIC-INDIC mixed with
\* ASCII), the others make int() raise (SUPERSCRIPT TWO, SUPERSCRIPT ZERO,
\* CIRCLED DIGITS)
UnicodeLines == { <<"U+0661", "U+0662", "U+0663", "U+0664">>,
                  <<"U+0967", "U+FF12", "U+06F3", "4">>,
                  <<"U+00B2", "3", "4", "5">>,
                  <<"1", "2", "3", "U+2070">>,
                  <<"U+2460", "U+2461", "U+2462", "U+2463">> }

\* the lines the player types: well-formed sample guesses, bad lines, lines
\* of other digits, and the hint last shown
InputLines(hint) ==
    {join(c) : c \in SampleCodes(NumGuesses, 0)} \cup BadLines
        \cup UnicodeLines
        \cup (IF hint = None THEN {} ELSE {join(hint)})

\* the secrets of the hint-following sessions: rearrangements of the opening
\* move's symbols
FollowSecrets ==
    LET rearranged == permutations(<<0, 1, 2, 3>>, CodeLen)
    IN  {rearranged[k] : k \in 1..Min(NumFollowSecrets, Len(rearranged))}

\* the pairs a caller passes as actual_feedback: every Feedback value
\* (bulls + cows at most CodeLen), whether or not any Code produces it
FeedbackPairs == {fb \in (0..CodeLen) \X (0..CodeLen) : fb[1] + fb[2] <= CodeLen}

\* the player asks for a hint only where the search is short
HintAffordable(pool) ==
    Len(pool) = Len(all_combinations) \/ Len(pool) <= MaxHintPool

\* the record of a method call
Call(op, arg1, arg2, before, result, evals) ==
    [op |-> op, arg1 |-> arg1, arg2 |-> arg2, before |-> before,
     result |-> result, evals |-> evals, raised |-> FALSE]

NoCall == Call("none", None, None, <<>>, None, 0)

-----------------------------------------------------------------------------
(* __init__ *)

Init ==
    /\ candidates = all_combinations
    /\ secret = None
    /\ attempts = 0
    /\ best_move = None
    /\ pc = "new"
    /\ call = NoCall

-----------------------------------------------------------------------------
(* play *)

\* play is called on the new object, as the program does: generate_secret
\* draws s, attempts = 0
GenerateSecret(s) ==
    /\ pc = "new"
    /\ secret' = s
    /\ attempts' = 0
    /\ pc' = "turn"
    /\ call' = Call("generate_secret", None, None, candidates, s, 0)
    /\ UNCHANGED <<candidates, best_move>>

\* the player answers y: suggest_best_guess runs and its result is shown;
\* on the empty pool the result is None and map(str, None) raises TypeError
AskHint ==
    /\ pc = "turn"
    /\ HintAffordable(candidates)
    /\ \E r \in {suggest_best_guess(candidates)} :
           /\ best_move' = r.guess
           /\ call' = Call("suggest_best_guess", None, None, candidates,
                           r.guess, r.evals)
           /\ pc' = IF r.guess = None THEN "crashed" ELSE "guess"
    /\ UNCHANGED <<candidates, secret, attempts>>

\* the player answers anything else
SkipHint ==
    /\ pc = "turn"
    /\ pc' = "guess"
    /\ UNCHANGED <<candidates, secret, attempts, best_move, call>>

\* the line typed does not parse: "Invalid input!", continue
RejectInput(user_input) ==
    /\ pc = "guess"
    /\ parse_input(user_input) = None
    /\ pc' = "turn"
    /\ call' = Call("parse_input", user_input, None, candidates, None, 0)
    /\ UNCHANGED <<candidates, secret, attempts, best_move>>

\* int() raises inside parse_input: the exception leaves play
InputRaises(user_input) ==
    /\ pc = "guess"
    /\ parse_input(user_input) = ValueError
    /\ pc' = "crashed"
    /\ call' = [Call("parse_input", user_input, None, candidates,
                     ValueError, 0) EXCEPT !.raised = TRUE]
    /\ UNCHANGED <<candidates, secret, attempts, best_move>>

\* (a value computed once and then used is bound by \E over its singleton)
\* the line typed parses: score it; on 4 bulls the game is won, otherwise the
\* pool is filtered and an empty pool ends the game with an error
PlayGuess(user_input) ==
    /\ pc = "guess"
    /\ parse_input(user_input) \notin {None, ValueError}
    /\ \E guess \in {parse_input(user_input)} :
       \E feedback \in {get_feedback(secret, guess)} :
           /\ attempts' = attempts + 1
           /\ IF feedback[1] = 4
              THEN /\ pc' = "won"
                   /\ candidates' = candidates
                   /\ call' = Call("get_feedback", secret, guess, candidates,
                                   feedback, 0)
              ELSE \E filtered \in
                          {filter_candidates(candidates, guess, feedback)} :
                   /\ candidates' = filtered
                   /\ pc' = IF Len(filtered) > 0 THEN "turn" ELSE "error"
                   /\ call' = Call("filter_candidates", guess, feedback,
                                   candidates, filtered, 0)
    /\ UNCHANGED <<secret, best_move>>

Next ==
    \/ \E s \in Secrets : GenerateSecret(s)
    \/ AskHint
    \/ SkipHint
    \/ \E line \in InputLines(best_move) : RejectInput(line)
    \/ \E line \in InputLines(best_move) : InputRaises(line)
    \/ \E line \in InputLines(best_move) :
          attempts < MaxAttempts /\ PlayGuess(line)

\* the program: one object, play called once
Spec == Init /\ [][Next]_vars

-----------------------------------------------------------------------------
(* The object used again: play called after an earlier call has ended.
   The program does not do this; a caller of the class can. *)

\* play is called again after it has returned or raised: generate_secret
\* draws s, attempts = 0; self.candidates is left as the earlier game
\* filtered it
PlayAgain(s) ==
    /\ pc \in {"won", "error", "crashed"}
    /\ secret' = s
    /\ attempts' = 0
    /\ best_move' = None
    /\ pc' = "turn"
    /\ call' = Call("generate_secret", None, None, candidates, s, 0)
    /\ UNCHANGED candidates

NextReuse ==
    \/ Next
    \/ \E s \in Secrets : PlayAgain(s)

SpecReuse == Init /\ [][NextReuse]_vars

-----------------------------------------------------------------------------
(* A player who asks for the hint on every turn and types it *)

FollowHint ==
    /\ best_move # None
    /\ call.op = "suggest_best_guess"
    /\ PlayGuess(join(best_move))

NextFollow ==
    \/ \E s \in FollowSecrets : GenerateSecret(s)
    \/ AskHint
    \/ FollowHint

\* play() is one sequential loop: it takes its next step whenever the player
\* has typed the line it waits for
SpecFollow == Init /\ [][NextFollow]_vars /\ WF_vars(AskHint \/ FollowHint)

-----------------------------------------------------------------------------
(* The methods called directly on a fresh object, as a test does *)

\* filter_candidates(guess, actual_feedback) with any feedback pair
ApiFilter(guess, actual_feedback) ==
    /\ pc = "new"
    /\ \E filtered \in {filter_candidates(candidates, guess, actual_feedback)} :
           /\ candidates' = filtered
           /\ call' = Call("filter_candidates", guess, actual_feedback,
                           candidates, filtered, 0)
    /\ UNCHANGED <<secret, attempts, best_move, pc>>

\* suggest_best_guess()
ApiSuggest ==
    /\ pc = "new"
    /\ HintAffordable(candidates)
    /\ \E r \in {suggest_best_guess(candidates)} :
           call' = Call("suggest_best_guess", None, None, candidates,
                        r.guess, r.evals)
    /\ UNCHANGED <<candidates, secret, attempts, best_move, pc>>

\* generate_secret()
ApiGenerateSecret(s) ==
    /\ pc = "new"
    /\ secret' = s
    /\ call' = Call("generate_secret", None, None, candidates, s, 0)
    /\ UNCHANGED <<candidates, attempts, best_move, pc>>

NextApi ==
    \/ \E g \in SampleCodes(NumApiGuesses, 0), fb \in FeedbackPairs :
          ApiFilter(g, fb)
    \/ ApiSuggest
    \/ \E s \in SampleCodes(NumApiSecrets, 7) : ApiGenerateSecret(s)

SpecApi == Init /\ [][NextApi]_vars

-----------------------------------------------------------------------------
(* get_feedback called directly *)

\* a Code: CodeLen pairwise-distinct symbols of the alphabet
IsCode(c) ==
    /\ Len(c) = CodeLen
    /\ \A i \in 1..Len(c) : c[i] \in 0..(NumSymbols - 1)
    /\ Cardinality(Range(c)) = CodeLen

\* tuples that are not Codes: too short, too long, a repeated symbol (twice),
\* a value outside the alphabet
Malformed == { <<1, 2, 3>>, <<0, 1, 2, 3, 4>>, <<1, 1, 2, 3>>, <<1, 1, 4, 5>>,
               <<0, 1, 2, 10>> }

\* get_feedback(s, g): it has no raise statement, and zip, set and sum accept
\* any two tuples of integers, so the call returns
OracleCall(s, g) ==
    /\ pc = "new"
    /\ call' = Call("get_feedback", s, g, <<>>, get_feedback(s, g), 0)
    /\ UNCHANGED <<candidates, secret, attempts, best_move, pc>>

\* one call on the fresh object, with every Code or malformed tuple as the
\* first argument
NextOracle ==
    /\ call.op = "none"
    /\ \E s \in Universe \cup Malformed,
          g \in SampleCodes(NumApiGuesses, 0) \cup Malformed : OracleCall(s, g)

SpecOracle == Init /\ [][NextOracle]_vars

-----------------------------------------------------------------------------
(* Notions the properties are stated with *)

\* a before b in the order of itertools.permutations over range(NumSymbols)
RECURSIVE LexLess(_, _, _)
LexLess(a, b, i) ==
    IF i > Len(a) \/ i > Len(b) THEN Len(a) < Len(b)
    ELSE a[i] < b[i] \/ (a[i] = b[i] /\ LexLess(a, b, i + 1))

\* the list is in that order, without repetition
InUniverseOrder(pool) ==
    \A i \in 1..(Len(pool) - 1) : LexLess(pool[i], pool[i + 1], 1)

\* the product of count^count over the outcome classes of guess on pool.  The
\* Shannon entropy of the outcome distribution is
\*     log2(n) - log2(ShannonWeight) / n          (n = Len(pool)),
\* so over one pool a guess has the greater entropy exactly when it has the
\* smaller weight, and equal entropy exactly when it has equal weight.
RECURSIVE Power(_, _), WeightOf(_, _)
Power(b, e) == IF e = 0 THEN 1 ELSE b * Power(b, e - 1)

WeightOf(counts, k) ==
    IF k > Len(counts) THEN 1
    ELSE Power(counts[k], counts[k]) * WeightOf(counts, k + 1)

ShannonWeight(guess, pool) ==
    WeightOf(CounterValues([i \in 1..Len(pool) |->
                               get_feedback(pool[i], guess)]), 1)

-----------------------------------------------------------------------------
(* Properties *)

\* C1: after filter_candidates(guess, (b, c)) the pool is the subsequence of
\* the old pool holding exactly the candidates x with
\* get_feedback(x, guess) = (b, c): all of them, nothing else, none twice, in
\* the old pool's order (both lists are in the one order of all_combinations).
C1_FilterKeepsExactlyMatches ==
    call.op = "filter_candidates" =>
        LET old == call.before
            guess == call.arg1
            fb == call.arg2
            matching == {i \in 1..Len(old) : get_feedback(old[i], guess) = fb}
        IN  /\ \A i \in 1..Len(candidates) :
                   get_feedback(candidates[i], guess) = fb
            /\ Range(candidates) = {old[i] : i \in matching}
            /\ Len(candidates) = Cardinality(matching)
            /\ Cardinality(Range(candidates)) = Len(candidates)
            /\ InUniverseOrder(old)
            /\ InUniverseOrder(candidates)

C1_Witness ==
    /\ call.op = "filter_candidates"
    /\ IsCode(call.arg1)
    /\ Len(candidates) > 1
    /\ Len(candidates) < Len(call.before)
    /\ Len(call.before) < Len(all_combinations)

\* C2: a filter_candidates call never grows the pool: the new pool is a
\* subset of the old one and of all_combinations, it is no longer, and
\* calculate_uncertainty() is no greater than before the call.
C2_PoolNeverGrows ==
    call.op = "filter_candidates" =>
        /\ Range(candidates) \subseteq Range(call.before)
        /\ Range(candidates) \subseteq Universe
        /\ Len(candidates) <= Len(call.before)
        /\ BitsLeq(calculate_uncertainty(candidates),
                   calculate_uncertainty(call.before))

C2_Witness ==
    /\ call.op = "filter_candidates"
    /\ Len(call.before) < Len(all_combinations)
    /\ Len(candidates) < Len(call.before)
    /\ calculate_uncertainty(candidates) # calculate_uncertainty(call.before)

\* C3: in a play session the secret is in the pool in every state, so the
\* pool is never empty and play never takes its "No candidates remaining"
\* branch.
C3_SecretStaysInPool ==
    /\ secret # None => \E i \in 1..Len(candidates) : candidates[i] = secret
    /\ candidates # <<>>
    /\ pc # "error"

C3_Witness ==
    /\ call.op = "filter_candidates"
    /\ attempts >= 3
    /\ Len(candidates) < Len(call.before)
    /\ \E i \in 1..Len(candidates) : candidates[i] = secret

\* no step of play removes the secret of the game being played from the
\* pool: the secret leaves the pool only by being drawn outside it
PlayKeepsSecretInPool ==
    [][secret' \in Range(candidates) => secret' \in Range(candidates')]_vars

\* on an object used again the branch is reached, and only in a game whose
\* secret was drawn outside the pool an earlier game had left
ErrorOnlyWithSecretOutsidePool ==
    pc = "error" => secret \notin Range(call.before)

\* C4: on a non-empty pool that is not the full one, suggest_best_guess
\* returns a pool member whose Shannon entropy over the pool is at least that
\* of every member and strictly greater than that of every member before it.
C4_FirstMaximiserOfEntropy ==
    (/\ call.op = "suggest_best_guess"
     /\ call.before # <<>>
     /\ Len(call.before) # Len(all_combinations)) =>
        LET pool == call.before
            g == call.result
        IN  \E k \in 1..Len(pool) :
                /\ pool[k] = g
                /\ \A j \in 1..Len(pool) :
                       ShannonWeight(g, pool) <= ShannonWeight(pool[j], pool)
                /\ \A j \in 1..(k - 1) :
                       ShannonWeight(g, pool) < ShannonWeight(pool[j], pool)

\* What does hold of the value returned: it is the first pool member that
\* attains the maximum of the binary64 numbers calculate_guess_entropy
\* returns, and its Shannon entropy is the maximum one.
SuggestMaximisesComputedEntropy ==
    (/\ call.op = "suggest_best_guess"
     /\ call.before # <<>>
     /\ Len(call.before) # Len(all_combinations)) =>
        LET pool == call.before
            g == call.result
            H(x) == calculate_guess_entropy(x, pool)
        IN  \E k \in 1..Len(pool) :
                /\ pool[k] = g
                /\ \A j \in 1..Len(pool) :
                       /\ ~FloatGT(H(pool[j]), H(g))
                       /\ ShannonWeight(g, pool) <= ShannonWeight(pool[j], pool)
                /\ \A j \in 1..(k - 1) : FloatGT(H(g), H(pool[j]))

\* C5: on the full pool suggest_best_guess returns (0, 1, 2, 3) and
\* evaluates no candidate's entropy, on every call and whatever the secret;
\* and the pool has FastPathSize elements exactly when it is the full pool.
C5_FastPathOnFullPool ==
    /\ (call.op = "suggest_best_guess" /\ call.before = all_combinations) =>
           (call.result = <<0, 1, 2, 3>> /\ call.evals = 0)
    /\ (Len(candidates) = FastPathSize) <=> (candidates = all_combinations)

C5_Witness ==
    /\ call.op = "suggest_best_guess"
    /\ call.before = all_combinations
    /\ secret # None
    /\ pc = "guess"

\* C6: on a singleton pool {x} suggest_best_guess returns x, for the pool of
\* the call made and for every member x of the current pool: the entropy of
\* x is 0.0, which exceeds the search's initial maximum -1.0.
C6_SingletonReturnsItsMember ==
    /\ (call.op = "suggest_best_guess" /\ Len(call.before) = 1) =>
           (call.result = call.before[1] /\ call.evals = 1)
    /\ \A i \in 1..Len(candidates) :
           /\ suggest_best_guess(<<candidates[i]>>).guess = candidates[i]
           /\ calculate_guess_entropy(candidates[i], <<candidates[i]>>)
                  = FloatZero
    /\ FloatGT(FloatZero, FloatMinusOne)

C6_Witness ==
    /\ call.op = "suggest_best_guess"
    /\ Len(call.before) = 1
    /\ call.result = call.before[1]

\* C7: for Codes c and g, get_feedback(c, g) = (bulls, cows) has
\* 0 <= bulls <= 4, 0 <= cows <= 4 and bulls + cows <= 4.
C7_FeedbackInRange ==
    (call.op = "get_feedback" /\ IsCode(call.arg1) /\ IsCode(call.arg2)) =>
        LET bulls == call.result[1]
            cows == call.result[2]
        IN  /\ 0 <= bulls /\ bulls <= CodeLen
            /\ 0 <= cows /\ cows <= CodeLen
            /\ bulls + cows <= CodeLen

C7_Witness ==
    /\ call.op = "get_feedback"
    /\ IsCode(call.arg1)
    /\ IsCode(call.arg2)
    /\ call.result = <<1, 3>>

\* C8: filter_candidates is idempotent: after a call, the same call again
\* leaves the pool as it is; and a call made on a pool that the same
\* arguments had already filtered left it unchanged.
C8_FilterIdempotent ==
    call.op = "filter_candidates" =>
        /\ filter_candidates(candidates, call.arg1, call.arg2) = candidates
        /\ (\A i \in 1..Len(call.before) :
               get_feedback(call.before[i], call.arg1) = call.arg2)
               => candidates = call.before

C8_Witness ==
    /\ call.op = "filter_candidates"
    /\ call.before # <<>>
    /\ Len(call.before) < Len(all_combinations)
    /\ \A i \in 1..Len(call.before) :
           get_feedback(call.before[i], call.arg1) = call.arg2
    /\ candidates = call.before

\* C9: get_feedback given a malformed Code ends in an error instead of
\* returning a feedback pair.
C9_MalformedCodeRaises ==
    (/\ call.op = "get_feedback"
     /\ (~IsCode(call.arg1) \/ ~IsCode(call.arg2))) => call.raised

\* the guess of a filter_candidates call in play, when it was in the pool
\* (it is not the secret: play filters only on fewer than 4 bulls), is gone
\* from the pool afterwards, and the pool is strictly shorter
GuessInPoolShrinksPool ==
    (/\ call.op = "filter_candidates"
     /\ secret # None
     /\ call.arg1 \in Range(call.before)) =>
        /\ call.arg1 # secret
        /\ call.arg1 \notin Range(candidates)
        /\ Len(candidates) < Len(call.before)

\* every hint is a member of the pool it was computed from
HintIsPoolMember ==
    call.op = "suggest_best_guess" => call.result \in Range(call.before)

\* the turns played never exceed the candidates removed so far, plus the
\* winning turn; so they never exceed the size of the initial pool
TurnsBoundedByPool ==
    /\ attempts <= Len(all_combinations) - Len(candidates)
                       + (IF pc = "won" THEN 1 ELSE 0)
    /\ attempts <= Len(all_combinations)

\* C10: for a player who types the hint on every turn: each hint is a pool
\* member, each guess that does not win leaves the pool strictly shorter and
\* without that guess, the turns stay within the size of the initial pool,
\* and every game begun is eventually won.
C10_HintFollowerWins ==
    /\ [](GuessInPoolShrinksPool /\ HintIsPoolMember /\ TurnsBoundedByPool)
    /\ (pc = "turn") ~> (pc = "won")

C10_Witness ==
    /\ pc = "won"
    /\ attempts >= 4
    /\ call.arg2 = best_move
    /\ Len(candidates) < Len(all_combinations)

=============================================================================
